---- MODULE Spec2Model ----
(***************************************************************************)
(* The entity-form interaction pattern of the admin dashboard:             *)
(*   CategoryForm  (categories/components/columns.tsx, lines 33-217)       *)
(*   ProductForm   (unnamed/part_000, lines 38-400)                        *)
(*   CellAction    (colors/components/cell-action.tsx)                     *)
(* One component instance is mounted per behaviour (comp, initialData are  *)
(* chosen in Init and never change): the instances share no state, each    *)
(* has its own useState cells.                                             *)
(*                                                                         *)
(* The browser runs one event handler or one promise continuation at a     *)
(* time, so every handler, and every continuation after an await, is one   *)
(* atomic action.  A disabled control receives no click.                   *)
(***************************************************************************)
EXTENDS Integers, Sequences, FiniteSets, TLC

VARIABLES
    comp,         \* which component is mounted
    initialData,  \* the initialData prop (Null in create-mode)
    values,       \* react-hook-form field values
    open,         \* useState(false): the confirmation modal is shown
    loading,      \* useState(false): the loading flag
    calls,        \* pending async calls (onSubmit/onDelete awaiting axios)
    count,        \* history: how many effects of each kind were emitted
    last,         \* history: the last handler that ran and what it emitted
    nav           \* MainNav: params.storeId and usePathname()

vars == <<comp, initialData, values, open, loading, calls, count, last, nav>>

(* ---------------------------- bounds ----------------------------------- *)
MaxCalls == 2       \* requests issued over a run
MaxMenuClicks == 1  \* Copy Id / Perbarui clicks over a run
MaxImages == 1      \* images attached to a product
MaxDepth == 3       \* segments of a pathname given to MainNav

(* ---------------------------- props ------------------------------------ *)
Components == {"CategoryForm", "ProductForm", "CellAction"}
Forms == {"CategoryForm", "ProductForm"}

Null == [isNull |-> TRUE]
Truthy(x) == x # Null

StoreId == "s1"
CategoryRecord == [id |-> "cat1", name |-> "Vitamins", billboardId |-> "bb1"]
ProductRecord ==
    [id |-> "p1", name |-> "Aspirin", images |-> <<>>, price |-> "1",
     categoryId |-> "cat1", colorId |-> "col1", sizeId |-> "sz1",
     isFeatured |-> FALSE, isArchived |-> FALSE]
ColorColumn == [id |-> "col1"]

Resource(c) ==
    CASE c = "CategoryForm" -> "categories"
      [] c = "ProductForm"  -> "products"
      [] c = "CellAction"   -> "colors"

\* params.categoryId / params.productId of the route the form is mounted on;
\* data.id of the row for CellAction
RecordId(c, init) ==
    IF c = "CellAction" THEN ColorColumn.id
    ELSE IF Truthy(init) THEN init.id ELSE "new"

ListRoute(c) == <<StoreId, Resource(c)>>
CollectionUrl(c) == <<"api", StoreId, Resource(c)>>
ItemUrl(c, init) == <<"api", StoreId, Resource(c), RecordId(c, init)>>

(* ---------------------------- form values ------------------------------ *)
DefaultValues(c, init) ==
    CASE c = "CategoryForm" ->
           IF Truthy(init)
           THEN [name |-> init.name, billboardId |-> init.billboardId]
           ELSE [name |-> "", billboardId |-> ""]
      [] c = "ProductForm" ->
           IF Truthy(init)
           THEN [name |-> init.name, images |-> init.images,
                 price |-> init.price, categoryId |-> init.categoryId,
                 colorId |-> init.colorId, sizeId |-> init.sizeId,
                 isFeatured |-> init.isFeatured,
                 isArchived |-> init.isArchived]
           ELSE [name |-> "", images |-> <<>>, price |-> "0",
                 categoryId |-> "", colorId |-> "", sizeId |-> "",
                 isFeatured |-> FALSE, isArchived |-> FALSE]
      [] c = "CellAction" -> Null

\* what the user can put into each control
FieldInputs(c) ==
    CASE c = "CategoryForm" ->
           [name |-> {"", "Vitamins"}, billboardId |-> {"", "bb1"}]
      [] c = "ProductForm" ->
           [name |-> {"", "Aspirin"}, price |-> {"0", "0.5", "1", "2", "-1"},
            categoryId |-> {"", "cat1"}, colorId |-> {"", "col1"},
            sizeId |-> {"", "sz1"}]
      [] c = "CellAction" -> [none |-> {}]

Checkboxes == {"isFeatured", "isArchived"}

\* z.coerce.number(): Number(input) as a fraction num/den
CoerceNumber(s) ==
    CASE s = "0"   -> [num |-> 0, den |-> 1]
      [] s = "0.5" -> [num |-> 1, den |-> 2]
      [] s = "1"   -> [num |-> 1, den |-> 1]
      [] s = "2"   -> [num |-> 2, den |-> 1]
      [] s = "-1"  -> [num |-> -1, den |-> 1]

MinLen(s, n) == Len(s) >= n
\* faulty variant: the rule is .positive() instead of .min(n)
MinNumPositive(q, n) == q.num > 0

MinNum(q, n) == q.num >= n * q.den

\* faulty variant: the billboardId rule dropped from the schema
CategorySchemaNoBillboard(v) == MinLen(v.name, 1)

CategorySchemaOk(v) ==
    /\ MinLen(v.name, 1)
    /\ MinLen(v.billboardId, 1)

ProductSchemaOk(v) ==
    /\ MinLen(v.name, 1)
    /\ MinNum(CoerceNumber(v.price), 1)
    /\ MinLen(v.categoryId, 1)
    /\ MinLen(v.colorId, 1)
    /\ MinLen(v.sizeId, 1)

formSchemaOk(c, v) ==
    IF c = "CategoryForm" THEN CategorySchemaOk(v) ELSE ProductSchemaOk(v)

\* the parsed data handed to onSubmit
formSchemaParse(c, v) ==
    IF c = "CategoryForm" THEN v
    ELSE [v EXCEPT !.price = CoerceNumber(v.price)]

(* ---------------------------- labels ----------------------------------- *)
title(c, init) ==
    IF c = "CategoryForm"
    THEN (IF Truthy(init) THEN "Edit Kategori" ELSE "Buat Kategori")
    ELSE (IF Truthy(init) THEN "Edit Produk" ELSE "Buat Produk Baru")

toastMessage(c, init) ==
    IF c = "CategoryForm"
    THEN (IF Truthy(init) THEN "Kategori diperbarui."
                          ELSE "Kategori berhasil dibuat")
    ELSE (IF Truthy(init) THEN "Produk di Perbarui."
                          ELSE "Produk berhasil dibuat")

action(c, init) ==
    IF c = "CategoryForm"
    THEN (IF Truthy(init) THEN "Simpan perubahan" ELSE "Buat Baru")
    ELSE (IF Truthy(init) THEN "Simpan Perubahan" ELSE "Buat Baru")

(* ---------------------------- effects ---------------------------------- *)
\* Everything a handler does to the outside (axios, router, toast,
\* clipboard) or to the useState cells, in program order.
BoolStr(b) == IF b THEN "true" ELSE "false"
Request(method, url) == [op |-> "request", kind |-> method, arg |-> url]
Refresh == [op |-> "refresh", kind |-> "", arg |-> <<>>]
Push(route) == [op |-> "push", kind |-> "", arg |-> route]
ToastSuccess(msg) == [op |-> "toast", kind |-> "success", arg |-> <<msg>>]
ToastError(msg) == [op |-> "toast", kind |-> "error", arg |-> <<msg>>]
SetLoading(b) == [op |-> "setLoading", kind |-> BoolStr(b), arg |-> <<>>]
SetOpen(b) == [op |-> "setOpen", kind |-> BoolStr(b), arg |-> <<>>]
ClipboardWrite(id) == [op |-> "clipboard", kind |-> "", arg |-> <<id>>]

GenericError == "Ada sesuatu yang salah"

(* ---------------------------- onSubmit --------------------------------- *)
\* faulty variant: the create/edit branches of onSubmit swapped
onSubmitStartSwapped(c, init) ==
    <<SetLoading(TRUE),
      IF Truthy(init) THEN Request("POST", CollectionUrl(c))
                      ELSE Request("PATCH", ItemUrl(c, init))>>

\* try { setLoading(true); if (initialData) patch else post  -- up to await
onSubmitStart(c, init) ==
    <<SetLoading(TRUE),
      IF Truthy(init) THEN Request("PATCH", ItemUrl(c, init))
                      ELSE Request("POST", CollectionUrl(c))>>

\* faulty variant: the success toast is shown before refresh and push
onSubmitTryToastFirst(c, init) ==
    <<ToastSuccess(toastMessage(c, init)), Refresh, Push(ListRoute(c))>>

\* ... the rest of the try block, once the request has resolved
onSubmitTry(c, init) ==
    <<Refresh, Push(ListRoute(c)), ToastSuccess(toastMessage(c, init))>>

\* faulty variant: the catch block swallows the error silently
onSubmitCatchSilent(c) == <<>>

\* faulty variant: the catch block navigates to the list as well
onSubmitCatchNavigates(c) ==
    <<Push(ListRoute(c)), ToastError(GenericError)>>

\* faulty variant: the catch block sends the request again
onSubmitCatchRetries(c) ==
    <<ToastError(GenericError), Request("POST", CollectionUrl(c))>>

onSubmitCatch(c) == <<ToastError(GenericError)>>

\* faulty variant: no finally block, the loading flag is never reset
onSubmitNoFinally(c) == <<>>

onSubmitFinally(c) == <<SetLoading(FALSE)>>

(* ---------------------------- onDelete --------------------------------- *)
onDeleteStart(c, init) ==
    <<SetLoading(TRUE), Request("DELETE", ItemUrl(c, init))>>

onDeleteTry(c) ==
    CASE c = "CategoryForm" ->
           <<Refresh, Push(ListRoute(c)), ToastSuccess("Kategori dihapus.")>>
      [] c = "ProductForm" ->
           <<Refresh, Push(ListRoute(c)), ToastSuccess("Produk dihapus")>>
      [] c = "CellAction" ->
           <<Refresh, ToastSuccess("Tipe Obat Dihapus.")>>

onDeleteCatch(c) ==
    CASE c = "CategoryForm" ->
           <<ToastError("Pastikan kamu sudah menghapus semua produk yang menggunakan kategori ini")>>
      [] c = "ProductForm" ->
           <<ToastError("Ada sesuatu yang salah")>>
      [] c = "CellAction" ->
           <<ToastError("Pastikan anda sudah menghapus semua Obat yang menggunakan Tipe Obat ini.")>>

\* faulty variant: the finally block forgets setOpen(false)
onDeleteFinallyKeepsOpen(c) == <<SetLoading(FALSE)>>

onDeleteFinally(c) == <<SetLoading(FALSE), SetOpen(FALSE)>>

(* ---------------------------- CellAction menu -------------------------- *)
onCopy(id) ==
    <<ClipboardWrite(id),
      ToastSuccess("Tipe Obat Id sudah dicopy ke clipboard.")>>

onEdit(id) == <<Push(<<StoreId, "colors", id>>)>>

(* ---------------------------- rendered controls ------------------------ *)
\* faulty variant: the submit button is never disabled
SubmitNeverDisabled == FALSE
\* faulty variant: the trash button is rendered in create-mode too
TrashAlwaysRendered == TRUE

SubmitDisabled == loading           \* <Button disabled={loading} type="submit">
TrashRendered == Truthy(initialData)   \* {initialData && (<Button ...>)}
TrashDisabled == loading            \* <Button disabled={loading} ...>
\* <Input disabled={loading}>, <Select disabled={loading}>,
\* <ImageUpload disabled={loading}>; the two <Checkbox> have no disabled prop
FieldDisabled(f) == IF f \in Checkboxes THEN FALSE ELSE loading
\* AlertModal: isOpen shows the dialog, loading disables the confirm button
ModalShown == open
ConfirmDisabled == loading

(* ---------------------------- state update ----------------------------- *)
Ops(effs, op) == {i \in DOMAIN effs : effs[i].op = op}
NumOps(effs, op) == Cardinality(Ops(effs, op))
NumToasts(effs, kind) ==
    Cardinality({i \in Ops(effs, "toast") : effs[i].kind = kind})
LastOp(effs, op) == CHOOSE i \in Ops(effs, op) : \A j \in Ops(effs, op) : j <= i

\* the value of a useState cell after the setter calls in effs
CellAfter(old, effs, op) ==
    IF Ops(effs, op) = {} THEN old ELSE effs[LastOp(effs, op)].kind = "true"

(* ---------------------------- MainNav ---------------------------------- *)
\* A path is the sequence of its segments: `/${storeId}/billboards` is
\* <<storeId, "billboards">>, "/" is <<>>, a trailing slash is a last
\* segment "".  No segment holds a "/".
\* faulty variant: a route is active for every path below its href
RouteActivePrefix(pathname, href) ==
    /\ Len(pathname) >= Len(href)
    /\ SubSeq(pathname, 1, Len(href)) = href

\* active: pathname === href
RouteActive(pathname, href) == pathname = href

Route(pathname, href, label) ==
    [href |-> href, label |-> label, active |-> RouteActive(pathname, href)]

MainNav(storeId, pathname) ==
    <<Route(pathname, <<storeId>>, "Overview"),
      Route(pathname, <<storeId, "billboards">>, "Papan Iklan"),
      Route(pathname, <<storeId, "categories">>, "Kategori"),
      Route(pathname, <<storeId, "sizes">>, "Bentuk Obat"),
      Route(pathname, <<storeId, "colors">>, "Tipe Obat"),
      Route(pathname, <<storeId, "products">>, "Produk"),
      Route(pathname, <<storeId, "orders">>, "Pesanan"),
      Route(pathname, <<storeId, "settings">>, "Setting")>>

\* the hooks MainNav reads: useParams().storeId and usePathname()
NavHooks(storeId, pathname) == [storeId |-> storeId, pathname |-> pathname]

\* the routes MainNav renders in the current state
routes == MainNav(nav.storeId, nav.pathname)

\* the page a component is mounted on
MountPath(c, init) ==
    IF c = "CellAction" THEN <<StoreId, Resource(c)>>
    ELSE <<StoreId, Resource(c), RecordId(c, init)>>

\* router.push(route) changes the pathname, MainNav renders again
PathAfter(old, effs) ==
    IF Ops(effs, "push") = {} THEN old ELSE effs[LastOp(effs, "push")].arg

\* call: the pending call a continuation belongs to (Null for a user event)
Emit(event, effs, call) ==
    /\ nav' = NavHooks(nav.storeId, PathAfter(nav.pathname, effs))
    /\ last' = [event |-> event, effects |-> effs, call |-> call]
    /\ loading' = CellAfter(loading, effs, "setLoading")
    /\ open' = CellAfter(open, effs, "setOpen")
    /\ count' =
         [requests  |-> count.requests + NumOps(effs, "request"),
          navs      |-> count.navs + NumOps(effs, "push"),
          refreshes |-> count.refreshes + NumOps(effs, "refresh"),
          successes |-> count.successes + NumToasts(effs, "success"),
          errors    |-> count.errors + NumToasts(effs, "error"),
          accepted  |-> count.accepted
                          + (IF event \in {"onSubmit", "onDelete"} THEN 1 ELSE 0),
          ok        |-> count.ok
                          + (IF event \in {"submitOk", "deleteOk"} THEN 1 ELSE 0),
          failed    |-> count.failed
                          + (IF event \in {"submitFail", "deleteFail"} THEN 1 ELSE 0),
          menu      |-> count.menu
                          + (IF event \in {"onCopy", "onEdit"} THEN 1 ELSE 0)]

RemoveAt(s, i) == SubSeq(s, 1, i - 1) \o SubSeq(s, i + 1, Len(s))

(* ---------------------------- initial state ---------------------------- *)
InitialDatas(c) ==
    CASE c = "CategoryForm" -> {Null, CategoryRecord}
      [] c = "ProductForm"  -> {Null, ProductRecord}
      [] c = "CellAction"   -> {Null}

Init ==
    /\ comp \in Components
    /\ initialData \in InitialDatas(comp)
    /\ values = DefaultValues(comp, initialData)
    /\ open = FALSE
    /\ loading = FALSE
    /\ calls = <<>>
    /\ count = [requests |-> 0, navs |-> 0, refreshes |-> 0, successes |-> 0,
                errors |-> 0, accepted |-> 0, ok |-> 0, failed |-> 0,
                menu |-> 0]
    /\ last = [event |-> "mount", effects |-> <<>>, call |-> Null]
    /\ nav = NavHooks(StoreId, MountPath(comp, initialData))

(* ---------------------------- user events ------------------------------ *)
\* field.onChange of an Input or Select
ChangeField(f, v) ==
    /\ comp \in Forms
    /\ f \in DOMAIN FieldInputs(comp)
    /\ v \in FieldInputs(comp)[f]
    /\ v # values[f]
    /\ ~FieldDisabled(f)
    /\ values' = [values EXCEPT ![f] = v]
    /\ Emit("onChange", <<>>, Null)
    /\ UNCHANGED <<comp, initialData, calls>>

\* onCheckedChange of the isFeatured / isArchived checkbox
ToggleCheckbox(f) ==
    /\ comp = "ProductForm"
    /\ f \in Checkboxes
    /\ ~FieldDisabled(f)
    /\ values' = [values EXCEPT ![f] = ~@]
    /\ Emit("onChange", <<>>, Null)
    /\ UNCHANGED <<comp, initialData, calls>>

\* ImageUpload onChange: field.onChange([...field.value, { url }])
UploadImage(url) ==
    /\ comp = "ProductForm"
    /\ ~FieldDisabled("images")
    /\ Len(values.images) < MaxImages
    /\ values' = [values EXCEPT !.images = Append(@, url)]
    /\ Emit("onChange", <<>>, Null)
    /\ UNCHANGED <<comp, initialData, calls>>

\* ImageUpload onRemove: filter((current) => current.url !== url)
RemoveImage(url) ==
    /\ comp = "ProductForm"
    /\ ~FieldDisabled("images")
    /\ \E i \in DOMAIN values.images : values.images[i] = url
    /\ values' = [values EXCEPT !.images = SelectSeq(@, LAMBDA u : u # url)]
    /\ Emit("onChange", <<>>, Null)
    /\ UNCHANGED <<comp, initialData, calls>>

\* form.handleSubmit(onSubmit): validate with the resolver, call onSubmit
\* with the parsed data only when the schema accepts the values
HandleSubmit ==
    /\ comp \in Forms
    /\ ~SubmitDisabled
    /\ IF formSchemaOk(comp, values)
       THEN /\ count.requests < MaxCalls
            /\ calls' = Append(calls, [fn |-> "onSubmit",
                                       data |-> formSchemaParse(comp, values),
                                       openAt |-> open])
            /\ Emit("onSubmit", onSubmitStart(comp, initialData), Null)
       ELSE /\ calls' = calls
            /\ Emit("invalid", <<>>, Null)
    /\ UNCHANGED <<comp, initialData, values>>

\* the trash button of a form: onClick={() => setOpen(true)}
ClickTrash ==
    /\ comp \in Forms
    /\ TrashRendered
    /\ ~TrashDisabled
    /\ Emit("trash", <<SetOpen(TRUE)>>, Null)
    /\ UNCHANGED <<comp, initialData, values, calls>>

\* the Hapus menu item of CellAction: onClick={() => setOpen(true)}
ClickHapus ==
    /\ comp = "CellAction"
    /\ Emit("hapus", <<SetOpen(TRUE)>>, Null)
    /\ UNCHANGED <<comp, initialData, values, calls>>

\* AlertModal confirm button: onConfirm={onDelete}
ModalConfirm ==
    /\ ModalShown
    /\ ~ConfirmDisabled
    /\ count.requests < MaxCalls
    /\ calls' = Append(calls, [fn |-> "onDelete", data |-> Null,
                               openAt |-> open])
    /\ Emit("onDelete", onDeleteStart(comp, initialData), Null)
    /\ UNCHANGED <<comp, initialData, values>>

\* AlertModal cancel button or dismissal: onClose={() => setOpen(false)}
ModalClose ==
    /\ ModalShown
    /\ Emit("onClose", <<SetOpen(FALSE)>>, Null)
    /\ UNCHANGED <<comp, initialData, values, calls>>

\* CellAction menu: Copy Id
ClickCopy ==
    /\ comp = "CellAction"
    /\ count.menu < MaxMenuClicks
    /\ Emit("onCopy", onCopy(RecordId(comp, initialData)), Null)
    /\ UNCHANGED <<comp, initialData, values, calls>>

\* CellAction menu: Perbarui
ClickEdit ==
    /\ comp = "CellAction"
    /\ count.menu < MaxMenuClicks
    /\ Emit("onEdit", onEdit(RecordId(comp, initialData)), Null)
    /\ UNCHANGED <<comp, initialData, values, calls>>

(* ---------------------------- request completions ---------------------- *)
\* the awaited axios promise resolves: rest of try, then finally
Resolve(i) ==
    /\ i \in DOMAIN calls
    /\ calls' = RemoveAt(calls, i)
    /\ IF calls[i].fn = "onSubmit"
       THEN Emit("submitOk",
                 onSubmitTry(comp, initialData) \o onSubmitFinally(comp),
                 calls[i])
       ELSE Emit("deleteOk", onDeleteTry(comp) \o onDeleteFinally(comp),
                 calls[i])
    /\ UNCHANGED <<comp, initialData, values>>

\* the awaited axios promise rejects: catch, then finally
Reject(i) ==
    /\ i \in DOMAIN calls
    /\ calls' = RemoveAt(calls, i)
    /\ IF calls[i].fn = "onSubmit"
       THEN Emit("submitFail", onSubmitCatch(comp) \o onSubmitFinally(comp),
                 calls[i])
       ELSE Emit("deleteFail", onDeleteCatch(comp) \o onDeleteFinally(comp),
                 calls[i])
    /\ UNCHANGED <<comp, initialData, values>>

Settle == \E i \in DOMAIN calls : Resolve(i) \/ Reject(i)

Next ==
    \/ \E f \in DOMAIN FieldInputs(comp) :
         \E v \in FieldInputs(comp)[f] : ChangeField(f, v)
    \/ \E f \in Checkboxes : ToggleCheckbox(f)
    \/ UploadImage("u1")
    \/ RemoveImage("u1")
    \/ HandleSubmit
    \/ ClickTrash
    \/ ClickHapus
    \/ ModalConfirm
    \/ ModalClose
    \/ ClickCopy
    \/ ClickEdit
    \/ \E i \in DOMAIN calls : Resolve(i)
    \/ \E i \in DOMAIN calls : Reject(i)

Spec == Init /\ [][Next]_vars

\* every request sent gets a response or an error (axios settles its promise)
FairSpec == Spec /\ WF_vars(Settle)

TypeOK ==
    /\ comp \in Components
    /\ open \in BOOLEAN
    /\ loading \in BOOLEAN
    /\ Len(calls) <= MaxCalls
    /\ count.requests <= MaxCalls

(* ---------------------------- MainNav on its own ----------------------- *)
\* MainNav for every store id and pathname of a small alphabet; the store
\* id "categories" coincides with a route name.
NavStoreIds == {"s1", "categories"}
NavSegments == {"s1", "categories", "colors", "cat1", ""}
NavPaths == UNION {[1..n -> NavSegments] : n \in 0..MaxDepth}

NavInit ==
    /\ comp = "CellAction"
    /\ initialData = Null
    /\ values = DefaultValues(comp, initialData)
    /\ open = FALSE
    /\ loading = FALSE
    /\ calls = <<>>
    /\ count = [requests |-> 0, navs |-> 0, refreshes |-> 0, successes |-> 0,
                errors |-> 0, accepted |-> 0, ok |-> 0, failed |-> 0,
                menu |-> 0]
    /\ last = [event |-> "mount", effects |-> <<>>, call |-> Null]
    \* the dashboard opens on the overview page of the store
    /\ \E s \in NavStoreIds : nav = NavHooks(s, <<s>>)

\* the URL changes (address bar, back/forward, another component's push)
Navigate(p) ==
    /\ p # nav.pathname
    /\ nav' = NavHooks(nav.storeId, p)
    /\ UNCHANGED <<comp, initialData, values, open, loading, calls, count, last>>

\* <Link href={route.href}> of the i-th route is clicked
ClickLink(i) ==
    /\ i \in DOMAIN routes
    /\ routes[i].href # nav.pathname
    /\ nav' = NavHooks(nav.storeId, routes[i].href)
    /\ UNCHANGED <<comp, initialData, values, open, loading, calls, count, last>>

NavNext ==
    \/ \E p \in NavPaths : Navigate(p)
    \/ \E i \in 1..8 : ClickLink(i)

NavSpec == NavInit /\ [][NavNext]_vars

(* ======================================================================= *)
(* Properties                                                              *)
(* ======================================================================= *)
SettleEvents == {"submitOk", "submitFail", "deleteOk", "deleteFail"}
CreateMode == comp \in Forms /\ ~Truthy(initialData)
EditMode == comp \in Forms /\ Truthy(initialData)

RequiredFields(c) ==
    IF c = "CategoryForm" THEN {"name", "billboardId"}
    ELSE {"name", "categoryId", "colorId", "sizeId"}
RequiredFieldEmpty(c, v) == \E f \in RequiredFields(c) : v[f] = ""

Requests(effs) == {effs[i] : i \in Ops(effs, "request")}
Pushes(effs) == {effs[i] : i \in Ops(effs, "push")}
Toasts(effs, kind) ==
    {effs[i].arg[1] : i \in {j \in Ops(effs, "toast") : effs[j].kind = kind}}

(* C1: a submit attempt of CategoryForm or ProductForm while a required    *)
(* string or reference field (name, billboardId, categoryId, colorId,      *)
(* sizeId) is empty never calls onSubmit: the step issues no request,      *)
(* starts no call, leaves the loading flag false and navigates nowhere.    *)
C1_InvalidSubmitBlocked ==
    [][(last'.event \in {"invalid", "onSubmit"}
          /\ RequiredFieldEmpty(comp, values))
        => /\ last'.event = "invalid"
           /\ calls' = calls
           /\ count'.requests = count.requests
           /\ count'.navs = count.navs
           /\ loading = FALSE
           /\ loading' = FALSE]_vars

C1_Witness ==
    /\ last.event = "invalid"
    /\ RequiredFieldEmpty(comp, values)
    /\ count.requests = 0
    /\ ~loading

(* C2: under every interleaving of user events and request completions at  *)
(* most one mutating request of the instance is in flight.                 *)
InFlight == count.requests - count.ok - count.failed

C2_AtMostOneInFlight ==
    /\ Len(calls) <= 1
    /\ InFlight <= 1

\* a request is pending and the user has clicked again meanwhile
C2_Witness ==
    /\ Len(calls) = 1
    /\ InFlight = 1
    /\ loading
    /\ last.event \in {"hapus", "onClose", "onChange"}

(* C3: whenever no request of the instance is in flight the loading flag   *)
(* is false, after a success and after a failure alike, and every request  *)
(* that was started is eventually completed with the flag reset.           *)
C3_LoadingReset ==
    /\ [](calls = <<>> => ~loading)
    /\ [](last.event \in SettleEvents => ~loading)
    /\ (calls # <<>>) ~> (calls = <<>> /\ ~loading)

\* a new request was started after an earlier one had failed
C3_Witness ==
    /\ count.failed >= 1
    /\ last.event \in {"onSubmit", "onDelete"}
    /\ loading

(* C4: in CategoryForm and ProductForm every successful submit or delete   *)
(* navigates exactly once, to the list route of the resource, a failed one *)
(* does not navigate, and the number of navigations equals the number of   *)
(* successful requests.                                                    *)
C4_OneNavigationPerSuccess ==
    comp \in Forms =>
      /\ count.navs = count.ok
      /\ last.event \in {"submitOk", "deleteOk"} =>
           /\ NumOps(last.effects, "push") = 1
           /\ Pushes(last.effects) = {Push(<<StoreId, Resource(comp)>>)}
      /\ last.event \in {"submitFail", "deleteFail"} =>
           NumOps(last.effects, "push") = 0

C4_Witness ==
    /\ comp \in Forms
    /\ count.ok >= 1
    /\ count.failed >= 1
    /\ count.navs = 1

(* C5: a valid submit issues exactly one request, PATCH to the item URL    *)
(* when initialData is non-null and POST to the collection URL when it is  *)
(* null; title, button text and success message are the edit-mode ones     *)
(* exactly when the request is PATCH, the create-mode ones when it is POST.*)
EditTitles == {"Edit Kategori", "Edit Produk"}
CreateTitles == {"Buat Kategori", "Buat Produk Baru"}
EditActions == {"Simpan perubahan", "Simpan Perubahan"}
CreateActions == {"Buat Baru"}
EditToasts == {"Kategori diperbarui.", "Produk di Perbarui."}
CreateToasts == {"Kategori berhasil dibuat", "Produk berhasil dibuat"}

C5_ModeSelectsRequestAndLabels ==
    /\ last.event = "onSubmit" =>
         /\ NumOps(last.effects, "request") = 1
         /\ \A r \in Requests(last.effects) :
              /\ r.kind \in {"PATCH", "POST"}
              /\ r.kind = "PATCH" <=> Truthy(initialData)
              /\ r.kind = "PATCH" =>
                   /\ r.arg = <<"api", StoreId, Resource(comp), initialData.id>>
                   /\ title(comp, initialData) \in EditTitles
                   /\ action(comp, initialData) \in EditActions
              /\ r.kind = "POST" =>
                   /\ r.arg = <<"api", StoreId, Resource(comp)>>
                   /\ title(comp, initialData) \in CreateTitles
                   /\ action(comp, initialData) \in CreateActions
    /\ last.event = "submitOk" =>
         /\ NumToasts(last.effects, "success") = 1
         /\ \A m \in Toasts(last.effects, "success") :
              /\ m \in EditToasts <=> Truthy(initialData)
              /\ m \in CreateToasts <=> ~Truthy(initialData)

C5_Witness ==
    /\ comp = "ProductForm"
    /\ ~Truthy(initialData)
    /\ last.event = "submitOk"
    /\ count.requests = 1

(* C6: in every component that deletes, a failed DELETE shows a message    *)
(* telling the user to remove the dependent records first, different from  *)
(* the generic message of a failed submit.                                 *)
DependencyMessages ==
    {"Pastikan kamu sudah menghapus semua produk yang menggunakan kategori ini",
     "Pastikan anda sudah menghapus semua Obat yang menggunakan Tipe Obat ini."}
SubmitFailureMessages ==
    UNION {Toasts(onSubmitCatch(c), "error") : c \in Forms}

C6_DeleteFailureMessageSpecific ==
    last.event = "deleteFail" =>
      /\ NumToasts(last.effects, "error") = 1
      /\ Toasts(last.effects, "error") \subseteq DependencyMessages
      /\ Toasts(last.effects, "error") \cap SubmitFailureMessages = {}

(* C7: a DELETE request is issued only by confirming the modal while it is *)
(* open; opening the modal issues nothing, cancelling it only sets open to *)
(* false; a create-mode form never opens the modal and never deletes.      *)
DeleteIssued ==
    \E r \in Requests(last'.effects) :
        r.kind = "DELETE" /\ count'.requests > count.requests

C7_DeleteOnlyAfterConfirm ==
    /\ [](CreateMode =>
            /\ ~open
            /\ \A i \in DOMAIN calls : calls[i].fn # "onDelete"
            /\ last.event \notin {"trash", "onDelete", "deleteOk", "deleteFail"})
    /\ [][DeleteIssued => (open /\ last'.event = "onDelete" /\ ~CreateMode)]_vars
    /\ [][last'.event \in {"trash", "hapus"} =>
            (open' /\ calls' = calls /\ count' = count
               /\ loading' = loading /\ values' = values)]_vars
    /\ [][last'.event = "onClose" =>
            (~open' /\ calls' = calls /\ count' = count
               /\ loading' = loading /\ values' = values)]_vars

\* the modal was opened and confirmed: a DELETE is pending
C7_Witness ==
    /\ last.event = "onDelete"
    /\ Len(calls) = 1
    /\ calls[1].fn = "onDelete"
    /\ calls[1].openAt
    /\ Requests(last.effects) = {Request("DELETE", ItemUrl(comp, initialData))}

(* C8: the step in which a DELETE request fails leaves the loading flag    *)
(* false and the modal closed, and triggers neither a refresh nor a        *)
(* navigation.                                                             *)
C8_FailedDeleteClosesModal ==
    [][last'.event = "deleteFail" =>
         /\ loading' = FALSE
         /\ open' = FALSE
         /\ count'.refreshes = count.refreshes
         /\ count'.navs = count.navs
         /\ count'.requests = count.requests]_vars

\* the modal was open when the DELETE of a color failed
C8_Witness ==
    /\ comp = "CellAction"
    /\ last.event = "deleteFail"
    /\ last.call.openAt
    /\ count.failed = 1
    /\ ~open
    /\ ~loading

(* C9: when a submit request fails the generic failure notification is     *)
(* shown, nothing is refreshed or navigated, and the field values and the  *)
(* modal flag are what they were at the moment of the submit.              *)
C9_FailedSubmitKeepsForm ==
    last.event = "submitFail" =>
      /\ Toasts(last.effects, "error") = {GenericError}
      /\ NumOps(last.effects, "refresh") = 0
      /\ NumOps(last.effects, "push") = 0
      /\ formSchemaParse(comp, values) = last.call.data
      /\ open = last.call.openAt

(* C10: no request is retried: every request is caused by one accepted     *)
(* submit or confirm, so the requests issued never outnumber those events, *)
(* and a completion (a failure in particular) issues no request.           *)
C10_NoAutomaticRetry ==
    /\ count.requests <= count.accepted
    /\ count.requests = Len(calls) + count.ok + count.failed
    /\ last.event \in SettleEvents => NumOps(last.effects, "request") = 0

\* after a failure the user acted again and a second request went out
C10_Witness ==
    /\ count.failed = 1
    /\ count.requests = 2
    /\ count.accepted = 2
    /\ last.event \in {"onSubmit", "onDelete"}

(* C11: MainNav yields the same eight routes in the same order (Overview,  *)
(* billboards, categories, sizes, colors, products, orders, settings),     *)
(* each href under /{storeId}; a route is active exactly when the pathname *)
(* equals its href, so at most one route is active and none is for a path  *)
(* nested below a route, such as /{storeId}/categories/{id}.               *)
ExpectedRoutes ==
    <<<<>>, <<"billboards">>, <<"categories">>, <<"sizes">>, <<"colors">>,
      <<"products">>, <<"orders">>, <<"settings">>>>
ActiveRoutes == {i \in DOMAIN routes : routes[i].active}

C11_MainNavExactMatch ==
    /\ Len(routes) = 8
    /\ \A i \in DOMAIN routes :
         /\ routes[i].href = <<nav.storeId>> \o ExpectedRoutes[i]
         /\ routes[i].active <=> (nav.pathname = routes[i].href)
    /\ routes[1].label = "Overview"
    /\ Cardinality(ActiveRoutes) <= 1
    /\ Len(nav.pathname) >= 3 => ActiveRoutes = {}

\* a nested path below the categories route: nothing is highlighted
C11_Witness ==
    /\ nav.pathname = <<nav.storeId, "categories", "cat1">>
    /\ ActiveRoutes = {}

(* C12: a submit of ProductForm whose other required fields are filled is  *)
(* accepted exactly when the price coerces to a number of at least 1: 1    *)
(* and more pass; 0 (the create-mode default), a negative value and a      *)
(* positive value below 1 such as 0.5 block it.                            *)
SubmitAttempted ==
    /\ comp = "ProductForm"
    /\ last.event \in {"invalid", "onSubmit"}
    /\ ~RequiredFieldEmpty(comp, values)
Price == CoerceNumber(values.price)

C12_PriceAtLeastOne ==
    SubmitAttempted => (last.event = "onSubmit" <=> Price.num >= Price.den)

\* a positive price below 1 was refused
C12_Witness ==
    /\ SubmitAttempted
    /\ values.price = "0.5"
    /\ last.event = "invalid"
    /\ count.requests = 0

(* C12 as stated: the submit is accepted exactly when the price coerces to *)
(* a positive number.                                                      *)
C12_PricePositive ==
    SubmitAttempted => (last.event = "onSubmit" <=> Price.num > 0)

(* C13: on a successful submit or delete of CategoryForm and ProductForm   *)
(* the effects come in this order, all in the continuation after the       *)
(* response: refresh, navigation to the list route, success notification,  *)
(* loading flag reset (then, for delete, modal closed); no refresh,        *)
(* navigation or success notification happens without a succeeded request. *)
OpsOf(effs) == [i \in DOMAIN effs |-> effs[i].op]

C13_SuccessEffectOrder ==
    comp \in Forms =>
      /\ last.event = "submitOk" =>
           /\ OpsOf(last.effects) = <<"refresh", "push", "toast", "setLoading">>
           /\ last.effects[2].arg = <<StoreId, Resource(comp)>>
           /\ last.effects[3].kind = "success"
           /\ last.effects[4].kind = "false"
      /\ last.event = "deleteOk" =>
           /\ OpsOf(last.effects) =
                <<"refresh", "push", "toast", "setLoading", "setOpen">>
           /\ last.effects[2].arg = <<StoreId, Resource(comp)>>
           /\ last.effects[3].kind = "success"
           /\ last.effects[4].kind = "false"
           /\ last.effects[5].kind = "false"
      /\ last.event \notin {"submitOk", "deleteOk"} =>
           /\ NumOps(last.effects, "refresh") = 0
           /\ NumOps(last.effects, "push") = 0
           /\ NumToasts(last.effects, "success") = 0
      /\ count.refreshes = count.ok
      /\ count.navs = count.ok
      /\ count.successes = count.ok

\* a delete succeeded after an earlier request of the form had failed
C13_Witness ==
    /\ comp \in Forms
    /\ last.event = "deleteOk"
    /\ count.failed = 1
    /\ count.ok = 1
    /\ ~loading
    /\ ~open

(* C14: every completed request produces exactly one notification, a       *)
(* success one exactly when it succeeded and an error one exactly when it  *)
(* failed; Copy Id produces one success notification, issues no request    *)
(* and leaves the loading and open flags as they were.                     *)
C14_OneNotificationPerCompletion ==
    /\ [](/\ last.event \in {"submitOk", "deleteOk"} =>
               /\ NumToasts(last.effects, "success") = 1
               /\ NumToasts(last.effects, "error") = 0
          /\ last.event \in {"submitFail", "deleteFail"} =>
               /\ NumToasts(last.effects, "error") = 1
               /\ NumToasts(last.effects, "success") = 0
          /\ count.errors = count.failed
          /\ count.successes >= count.ok
          /\ count.successes <= count.ok + count.menu)
    /\ [][last'.event \in SettleEvents =>
            (count'.successes + count'.errors
               = count.successes + count.errors + 1)]_vars
    /\ [][last'.event = "onCopy" =>
            /\ count'.successes = count.successes + 1
            /\ count'.errors = count.errors
            /\ count'.requests = count.requests
            /\ calls' = calls
            /\ loading' = loading
            /\ open' = open]_vars

\* Copy Id was clicked while a delete was pending and the modal open
C14_Witness ==
    /\ last.event = "onCopy"
    /\ Len(calls) = 1
    /\ loading
    /\ open
    /\ count.successes = 1

====
